---- MODULE Spec2Model ----
(***************************************************************************)
(* A model of baiching/mylibs: the header-only TCP socket library          *)
(* src/sockets/network.h, together with the part of the operating system   *)
(* it talks to (the descriptor table, the resolver, the transport).        *)
(*                                                                         *)
(* Every library function is one operator that maps the descriptor table   *)
(* and the outcomes of the system calls it makes to the new table, the     *)
(* value it returns and the trace of calls it made.  Every action is one   *)
(* call of a library function by the program that owns the handles.        *)
(***************************************************************************)
EXTENDS Integers, Sequences, FiniteSets, TLC

\* ---------------------------------------------------------------- bounds
\* Size of the process's descriptor table.
MaxFd == 2
\* Longest string handed to network_send.
MaxLen == 2
\* Largest buffer_size handed to network_recv.
MaxCap == 2
\* Number of addresses malloc can hand out.
MaxBlocks == 3
\* Number of tracked allocations that succeed in one run.
MaxAllocs == 4
\* Number of messages the one-way server receives and prints in one run.
MaxPrinted == 4

\* ------------------------------------------------------- program constants
\* The value every function returns on failure, and the invalid handle.
INVALID == -1
\* #define BACKLOG 10
BACKLOG == 10

FD == 0 .. (MaxFd - 1)

\* State of one slot of the descriptor table.  "unbound" and "bound" are the
\* states a socket is in between socket() and listen()/connect().
SockStates == {"free", "unbound", "bound", "listening", "connected", "peer_shut"}

VARIABLES
    fds,      \* the OS descriptor table: FD -> SockStates
    owned,    \* handles returned to the caller and not yet passed to network_close
    closed,   \* handle values the caller has passed to network_close
    alive,    \* FALSE once the process has been killed (segmentation fault)
    last,     \* the last call: function, arguments, outcome, calls it made
    \* src/memory/memorytracker.c
    memblkList,  \* the tracking list: NULL, or an stb_ds array of block headers
    heap,        \* the pointers handed out by f_malloc_tracker and not yet freed
    nAlloc,      \* number of tracked allocations that succeeded
    nFree,       \* number of tracked frees of a block
    mlast,       \* the last call of the tracker and what it printed
    \* src/sockets/tests/test_oneway_server.c
    pc,          \* where main is
    socket,      \* socket_t socket
    newsocket,   \* socket_t newsocket
    bytes_recv,  \* int bytes_recv
    srv_data,    \* what char data[buffer_size] holds
    printed,     \* number of received messages main has printed
    closes       \* the handles main has passed to network_close, in order

sockvars == <<fds, owned, closed, alive, last>>

memvars == <<memblkList, heap, nAlloc, nFree, mlast>>

srvvars == <<pc, socket, newsocket, bytes_recv, srv_data, printed, closes>>

vars == <<sockvars, memvars, srvvars>>

\* ------------------------------------------------------- operating system
Open(f) == {d \in FD : f[d] # "free"}

hasFree(f) == \E d \in FD : f[d] = "free"

\* socket() and accept() hand out the lowest-numbered free descriptor.
lowestFree(f) == CHOOSE d \in FD : f[d] = "free" /\ \A e \in FD : f[e] = "free" => d <= e

AllFree == [d \in FD |-> "free"]

\* close(2): releases the slot; on a value that names no open descriptor it
\* fails with EBADF and changes nothing.
sys_close(f, h) == IF h \in FD /\ f[h] # "free" THEN [f EXCEPT ![h] = "free"] ELSE f

sys_close_ret(f, h) == IF h \in FD /\ f[h] # "free" THEN 0 ELSE -1

\* socket(2): ok says whether the OS grants the socket (EMFILE, EAFNOSUPPORT, ...).
sys_socket_ret(f, ok) == IF ok /\ hasFree(f) THEN lowestFree(f) ELSE -1

sys_socket(f, ok) == IF ok /\ hasFree(f) THEN [f EXCEPT ![lowestFree(f)] = "unbound"] ELSE f

\* accept(2) on h: a new connected descriptor when h is listening, a connection
\* is pending and a slot is free.
sys_accept_ret(f, h, pending) ==
    IF h \in FD /\ f[h] = "listening" /\ pending /\ hasFree(f) THEN lowestFree(f) ELSE -1

sys_accept(f, h, pending) ==
    IF sys_accept_ret(f, h, pending) >= 0
    THEN [f EXCEPT ![lowestFree(f)] = "connected"]
    ELSE f

\* bind(2) and listen(2) on a socket this call has just created.
sys_bind_ret(f, h, ok) == IF h \in FD /\ f[h] = "unbound" /\ ok THEN 0 ELSE -1

sys_bind(f, h, ok) == IF sys_bind_ret(f, h, ok) = 0 THEN [f EXCEPT ![h] = "bound"] ELSE f

sys_listen_ret(f, h, ok) == IF h \in FD /\ f[h] = "bound" /\ ok THEN 0 ELSE -1

sys_listen(f, h, ok) == IF sys_listen_ret(f, h, ok) = 0 THEN [f EXCEPT ![h] = "listening"] ELSE f

\* connect(2) on a socket this call has just created.
sys_connect_ret(f, h, ok) == IF h \in FD /\ f[h] = "unbound" /\ ok THEN 0 ELSE -1

sys_connect(f, h, ok) == IF sys_connect_ret(f, h, ok) = 0 THEN [f EXCEPT ![h] = "connected"] ELSE f

\* What send(2) of n > 0 bytes on h can return: -1 on error, else the number
\* of bytes the transport took, between 1 and n.  A descriptor that is not a
\* connected socket only fails (EBADF, ENOTCONN).
sys_send_results(f, h, n) ==
    IF h \in FD /\ f[h] \in {"connected", "peer_shut"} THEN {-1} \cup (1 .. n) ELSE {-1}

\* What recv(2) of up to cap > 0 bytes on h can return: -1 on error, the number
\* of bytes delivered, or 0 at the end of the stream once the peer has shut
\* the connection down.
sys_recv_results(f, h, cap) ==
    IF h \in FD /\ f[h] = "connected" THEN {-1} \cup (1 .. cap)
    ELSE IF h \in FD /\ f[h] = "peer_shut" THEN {-1, 0} \cup (1 .. cap)
    ELSE {-1}

\* One entry of the trace of a call: <<name>> for a step that involves no
\* descriptor, <<name, descriptor, result>> for a system call on a descriptor.
\* Calls gives the positions of the calls of one name.
Calls(trace, name) == {i \in DOMAIN trace : trace[i][1] = name}

\* What a library call yields: the new descriptor table, the returned value,
\* the calls made, and whether the call returned at all.
Result(f, r, t) == [fds |-> f, ret |-> r, trace |-> t, outcome |-> "returned"]

Crash(t) == [fds |-> AllFree, ret |-> INVALID, trace |-> t, outcome |-> "crashed"]

\* ---------------------------------------------------------------- library
\* inline void network_close(socket_t socket) { close(socket); }
network_close(f, h) ==
    Result(sys_close(f, h), 0, <<<<"close", h, sys_close_ret(f, h)>>>>)

\* network_listen with the slip of leaving the socket open when bind fails.
network_listen_bind_leak(f, e) ==
    LET sockfd == sys_socket_ret(f, e.sock)
        f1 == sys_socket(f, e.sock)
        t1 == <<<<"getaddrinfo">>, <<"read_res">>, <<"socket", sockfd, sockfd>>>>
        b == sys_bind_ret(f1, sockfd, e.bind)
        f2 == sys_bind(f1, sockfd, e.bind)
        t2 == t1 \o <<<<"read_res">>, <<"bind", sockfd, b>>>>
        l == sys_listen_ret(f2, sockfd, e.listen)
        f3 == sys_listen(f2, sockfd, e.listen)
        t3 == t2 \o <<<<"listen", sockfd, l, BACKLOG>>>>
    IN  IF e.unresolved /\ e.ub = "crash"
        THEN Crash(<<<<"getaddrinfo">>, <<"read_res">>>>)
        ELSE IF sockfd < 0
        THEN Result(f1, -1, t1 \o <<<<"freeaddrinfo">>>>)
        ELSE IF b < 0
        THEN Result(f2, -1, t2 \o <<<<"freeaddrinfo">>>>)
        ELSE IF l < 0
        THEN LET c == network_close(f3, sockfd)
             IN  Result(c.fds, -1, t3 \o <<<<"freeaddrinfo">>>> \o c.trace)
        ELSE Result(f3, sockfd, t3 \o <<<<"freeaddrinfo">>>>)

\* inline socket_t network_listen(const char *port)
\* e.unresolved: getaddrinfo produced no descriptor.  Its return value is not
\* looked at, so on failure res is an uninitialised pointer and reading it is
\* undefined: e.ub says whether the read kills the process ("crash") or yields
\* whatever the memory holds ("garbage").
network_listen(f, e) ==
    LET sockfd == sys_socket_ret(f, e.sock)
        f1 == sys_socket(f, e.sock)
        t1 == <<<<"getaddrinfo">>, <<"read_res">>, <<"socket", sockfd, sockfd>>>>
        b == sys_bind_ret(f1, sockfd, e.bind)
        f2 == sys_bind(f1, sockfd, e.bind)
        t2 == t1 \o <<<<"read_res">>, <<"bind", sockfd, b>>>>
        l == sys_listen_ret(f2, sockfd, e.listen)
        f3 == sys_listen(f2, sockfd, e.listen)
        t3 == t2 \o <<<<"listen", sockfd, l, BACKLOG>>>>
    IN  IF e.unresolved /\ e.ub = "crash"
        THEN Crash(<<<<"getaddrinfo">>, <<"read_res">>>>)
        ELSE IF sockfd < 0
        THEN Result(f1, -1, t1 \o <<<<"freeaddrinfo">>>>)
        ELSE IF b < 0
        THEN LET c == network_close(f2, sockfd)
             IN  Result(c.fds, -1, t2 \o <<<<"freeaddrinfo">>>> \o c.trace)
        ELSE IF l < 0
        THEN LET c == network_close(f3, sockfd)
             IN  Result(c.fds, -1, t3 \o <<<<"freeaddrinfo">>>> \o c.trace)
        ELSE Result(f3, sockfd, t3 \o <<<<"freeaddrinfo">>>>)

\* inline socket_t network_listen_on(const char *ip, const char *port)
network_listen_on(f, e) ==
    LET sockfd == sys_socket_ret(f, e.sock)
        f1 == sys_socket(f, e.sock)
        t1 == <<<<"getaddrinfo">>, <<"read_res">>, <<"socket", sockfd, sockfd>>>>
        b == sys_bind_ret(f1, sockfd, e.bind)
        f2 == sys_bind(f1, sockfd, e.bind)
        t2 == t1 \o <<<<"read_res">>, <<"bind", sockfd, b>>>>
        l == sys_listen_ret(f2, sockfd, e.listen)
        f3 == sys_listen(f2, sockfd, e.listen)
        t3 == t2 \o <<<<"listen", sockfd, l, BACKLOG>>>>
    IN  IF e.unresolved /\ e.ub = "crash"
        THEN Crash(<<<<"getaddrinfo">>, <<"read_res">>>>)
        ELSE IF sockfd < 0
        THEN Result(f1, -1, t1 \o <<<<"freeaddrinfo">>>>)
        ELSE IF b < 0
        THEN LET c == network_close(f2, sockfd)
             IN  Result(c.fds, -1, t2 \o <<<<"freeaddrinfo">>>> \o c.trace)
        ELSE IF l < 0
        THEN LET c == network_close(f3, sockfd)
             IN  Result(c.fds, -1, t3 \o <<<<"freeaddrinfo">>>> \o c.trace)
        ELSE Result(f3, sockfd, t3 \o <<<<"freeaddrinfo">>>>)

\* network_accept with the slip of closing the listening socket when accept fails.
network_accept_closes_listener(f, h, storage, pending) ==
    IF h < 0 THEN Result(f, -1, <<>>)
    ELSE IF ~storage THEN Result(f, -1, <<>>)
    ELSE LET newfd == sys_accept_ret(f, h, pending)
         IN  IF newfd < 0
             THEN LET c == network_close(f, h)
                  IN  Result(c.fds, -1, <<<<"accept", h, newfd>>>> \o c.trace)
             ELSE Result(sys_accept(f, h, pending), newfd, <<<<"accept", h, newfd>>>>)

\* inline socket_t network_accept(socket_t socktfd, struct sockaddr_storage *client_storage)
\* storage: client_storage is not NULL.  pending: a connection is waiting.
network_accept(f, h, storage, pending) ==
    IF h < 0 THEN Result(f, -1, <<>>)
    ELSE IF ~storage THEN Result(f, -1, <<>>)
    ELSE LET newfd == sys_accept_ret(f, h, pending)
         IN  Result(sys_accept(f, h, pending), IF newfd < 0 THEN -1 ELSE newfd,
                    <<<<"accept", h, newfd>>>>)

\* network_connect with the slip of not closing the socket when connect fails.
network_connect_leak(f, e) ==
    IF ~e.addr THEN Result(f, -1, <<>>)
    ELSE LET client_socket == sys_socket_ret(f, e.sock)
             f1 == sys_socket(f, e.sock)
             t1 == <<<<"socket", client_socket, client_socket>>>>
             r == sys_connect_ret(f1, client_socket, e.conn)
             f2 == sys_connect(f1, client_socket, e.conn)
             t2 == t1 \o <<<<"connect", client_socket, r>>>>
         IN  IF client_socket < 0 THEN Result(f1, -1, t1)
             ELSE IF r = 0 THEN Result(f2, client_socket, t2)
             ELSE Result(f2, -1, t2)

\* inline socket_t network_connect(const struct addrinfo *server_address)
\* e.addr: server_address is not NULL.
network_connect(f, e) ==
    IF ~e.addr THEN Result(f, -1, <<>>)
    ELSE LET client_socket == sys_socket_ret(f, e.sock)
             f1 == sys_socket(f, e.sock)
             t1 == <<<<"socket", client_socket, client_socket>>>>
             r == sys_connect_ret(f1, client_socket, e.conn)
             f2 == sys_connect(f1, client_socket, e.conn)
             t2 == t1 \o <<<<"connect", client_socket, r>>>>
         IN  IF client_socket < 0 THEN Result(f1, -1, t1)
             ELSE IF r = 0 THEN Result(f2, client_socket, t2)
             ELSE LET c == network_close(f2, client_socket)
                  IN  Result(c.fds, -1, t2 \o c.trace)

\* network_send without the check for the empty string: send() is called with
\* length 0.
network_send_no_empty_check(f, h, data, k) ==
    IF h < 0 THEN Result(f, -1, <<>>)
    ELSE IF data.null THEN Result(f, -1, <<>>)
    ELSE IF k < 0 THEN Result(f, -1, <<<<"send", h, k, data.len>>>>)
    ELSE Result(f, k, <<<<"send", h, k, data.len>>>>)

\* network_send with the slip of treating a partial send as a failure.
network_send_partial_is_error(f, h, data, k) ==
    IF h < 0 THEN Result(f, -1, <<>>)
    ELSE IF data.null THEN Result(f, -1, <<>>)
    ELSE IF data.len = 0 THEN Result(f, 0, <<>>)
    ELSE IF k < data.len THEN Result(f, -1, <<<<"send", h, k, data.len>>>>)
    ELSE Result(f, k, <<<<"send", h, k, data.len>>>>)

\* network_send with the slip of returning the length asked for instead of
\* the count send() returned.
network_send_returns_len(f, h, data, k) ==
    IF h < 0 THEN Result(f, -1, <<>>)
    ELSE IF data.null THEN Result(f, -1, <<>>)
    ELSE IF data.len = 0 THEN Result(f, 0, <<>>)
    ELSE IF k < 0 THEN Result(f, -1, <<<<"send", h, k, data.len>>>>)
    ELSE Result(f, data.len, <<<<"send", h, k, data.len>>>>)

\* inline socket_t network_send(socket_t socketfd, const void *data)
\* data.null: data is NULL; data.len: strlen(data) otherwise.  k: what send(2)
\* returns if it is called.
network_send(f, h, data, k) ==
    IF h < 0 THEN Result(f, -1, <<>>)
    ELSE IF data.null THEN Result(f, -1, <<>>)
    ELSE IF data.len = 0 THEN Result(f, 0, <<>>)
    ELSE IF k < 0 THEN Result(f, -1, <<<<"send", h, k, data.len>>>>)
    ELSE Result(f, k, <<<<"send", h, k, data.len>>>>)

\* What network_recv yields: as Result, and the number of bytes of the caller's
\* buffer that recv() has overwritten (data[0 .. wrote-1]).
RecvResult(f, r, t, w) ==
    [fds |-> f, ret |-> r, trace |-> t, outcome |-> "returned", wrote |-> w]

\* network_recv without the check for a buffer of size 0: recv() is called
\* with length 0.
network_recv_no_size_check(f, h, buf, r) ==
    IF h < 0 THEN RecvResult(f, -1, <<>>, 0)
    ELSE IF buf.null THEN RecvResult(f, -1, <<>>, 0)
    ELSE IF r < 0 THEN RecvResult(f, -1, <<<<"recv", h, r, buf.size>>>>, 0)
    ELSE RecvResult(f, r, <<<<"recv", h, r, buf.size>>>>, r)

\* network_recv with the slip of treating the end of the stream as a failure
\* (bytes_recv <= 0 instead of bytes_recv < 0).
network_recv_eof_is_error(f, h, buf, r) ==
    IF h < 0 THEN RecvResult(f, -1, <<>>, 0)
    ELSE IF buf.null THEN RecvResult(f, -1, <<>>, 0)
    ELSE IF buf.size = 0 THEN RecvResult(f, -1, <<>>, 0)
    ELSE IF r <= 0 THEN RecvResult(f, -1, <<<<"recv", h, r, buf.size>>>>, 0)
    ELSE RecvResult(f, r, <<<<"recv", h, r, buf.size>>>>, r)

\* inline socket_t network_recv(socket_t socketfd, void *data, size_t buffer_size)
\* buf.null: data is NULL; buf.size: buffer_size.  r: what recv(2) returns if it
\* is called; recv(2) stores the r bytes it returns at the start of data.
network_recv(f, h, buf, r) ==
    IF h < 0 THEN RecvResult(f, -1, <<>>, 0)
    ELSE IF buf.null THEN RecvResult(f, -1, <<>>, 0)
    ELSE IF buf.size = 0 THEN RecvResult(f, -1, <<>>, 0)
    ELSE IF r < 0 THEN RecvResult(f, -1, <<<<"recv", h, r, buf.size>>>>, 0)
    ELSE RecvResult(f, r, <<<<"recv", h, r, buf.size>>>>, r)

\* ------------------------------------------------------------ the program
\* Outcomes of the system calls of one network_listen / network_listen_on, one
\* for each way the call can go: a system call after the one that fails is
\* never made, so its outcome is left FALSE.
ListenEnv ==
    {e \in [unresolved : BOOLEAN, ub : {"none", "crash", "garbage"},
            sock : BOOLEAN, bind : BOOLEAN, listen : BOOLEAN] :
        /\ e.unresolved <=> e.ub # "none"
        /\ e.ub = "crash" => ~e.sock
        /\ e.bind => e.sock
        /\ e.listen => e.bind}

\* Argument and system call outcomes of one network_connect.
ConnectEnv ==
    {e \in [addr : BOOLEAN, sock : BOOLEAN, conn : BOOLEAN] :
        /\ e.sock => e.addr
        /\ e.conn => e.sock}

\* The strings handed to network_send: NULL, or a string of some length.
SendData == {[null |-> TRUE, len |-> 0]} \cup [null : {FALSE}, len : 0 .. MaxLen]

\* The buffers handed to network_recv: NULL, or a buffer of some size.
RecvBuf == {[null |-> TRUE, size |-> 0]} \cup [null : {FALSE}, size : 0 .. MaxCap]

\* ------------------------------------------------------ the memory tracker
\* The addresses (malloc)() can return; NULL is 0.
Addr == 1 .. MaxBlocks

\* The sizes asked for: malloc(sizeof(int) * 4) and malloc(10 * sizeof(int)).
Sizes == {16, 40}

\* struct memoryblk **memblkList = NULL: an stb_ds array is a NULL pointer
\* until the first element is put into it, and stays allocated afterwards.
NullList == [null |-> TRUE, items |-> <<>>]

\* stbds_arrput(a, v): appends v, allocating the array if a is NULL.
arrput(a, v) == [null |-> FALSE, items |-> Append(a.items, v)]

\* stbds_arrdel(a, i): removes the element at i and moves the later ones down;
\* the array itself is kept, also when it becomes empty.
arrdel(a, i) ==
    [null |-> a.null,
     items |-> SubSeq(a.items, 1, i - 1) \o SubSeq(a.items, i + 1, Len(a.items))]

\* stbds_arrdelswap(a, i): removes the element at i by moving the last one
\* into its place.
arrdelswap(a, i) ==
    [null |-> a.null,
     items |-> IF i = Len(a.items) THEN SubSeq(a.items, 1, i - 1)
               ELSE [SubSeq(a.items, 1, Len(a.items) - 1) EXCEPT ![i] = a.items[Len(a.items)]]]

\* stbds_arrlen(a): 0 for a NULL array.
arrlen(a) == Len(a.items)

\* void *f_malloc_tracker(size_t size, const char *expr, const char *file, int line)
\* p: what (malloc)() returns, 0 for NULL; the header in front of the block
\* records the size and the address handed to the user (expr, file and line
\* are only printed).
f_malloc_tracker(list, size, p) ==
    IF p = 0 THEN [list |-> list, ret |-> 0]
    ELSE [list |-> arrput(list, [size |-> size, addr |-> p]), ret |-> p]

\* The loop of f_tracK_free with the slip of stopping one element early
\* (i < arrlen - 1).
RECURSIVE free_loop_stops_early(_, _, _)
free_loop_stops_early(list, addr, i) ==
    IF i > arrlen(list) - 1 THEN list
    ELSE IF list.items[i].addr = addr THEN free_loop_stops_early(arrdel(list, i), addr, i + 1)
    ELSE free_loop_stops_early(list, addr, i + 1)

\* The loop of f_tracK_free with stbds_arrdelswap in the place of stbds_arrdel.
RECURSIVE free_loop_delswap(_, _, _)
free_loop_delswap(list, addr, i) ==
    IF i > arrlen(list) THEN list
    ELSE IF list.items[i].addr = addr THEN free_loop_delswap(arrdelswap(list, i), addr, i + 1)
    ELSE free_loop_delswap(list, addr, i + 1)

\* for (int i = 0; i < stbds_arrlen(memblkList); i++)
\*     if (memblk->addr == memblkList[i]->addr) stbds_arrdel(memblkList, i);
\* i counts from 1 here; after a deletion it still moves on by one.
RECURSIVE free_loop(_, _, _)
free_loop(list, addr, i) ==
    IF i > arrlen(list) THEN list
    ELSE IF list.items[i].addr = addr THEN free_loop(arrdel(list, i), addr, i + 1)
    ELSE free_loop(list, addr, i + 1)

\* void f_tracK_free(void *ptr, const char *expr, const char *file, int line)
f_tracK_free(list, ptr) ==
    IF ptr = 0 THEN list
    ELSE free_loop(list, ptr, 1)

\* void f_trackListAllocations(): what is printed between the start and the
\* end line: the EMPTY marker, or one line for each header in the list.
f_trackListAllocations(list) ==
    IF list.null THEN [empty |-> TRUE, blocks |-> <<>>]
    ELSE [empty |-> FALSE, blocks |-> [i \in 1 .. arrlen(list) |-> list.items[i]]]

NoOutput == [empty |-> FALSE, blocks |-> <<>>]

MemInit ==
    /\ memblkList = NullList
    /\ heap = {}
    /\ nAlloc = 0
    /\ nFree = 0
    /\ mlast = [op |-> "init", ptr |-> 0, size |-> 0, out |-> NoOutput]

\* int *ptr = malloc(sizeof(int) * 4);   (the macro malloc of memorytracker.h)
\* (malloc)() fails, or returns an address that is not in use.
MemAlloc ==
    /\ \E size \in Sizes, p \in {0} \cup (Addr \ heap) :
         LET res == f_malloc_tracker(memblkList, size, p)
         IN  /\ p # 0 => nAlloc < MaxAllocs
             /\ memblkList' = res.list
             /\ heap' = IF res.ret # 0 THEN heap \cup {res.ret} ELSE heap
             /\ nAlloc' = IF res.ret # 0 THEN nAlloc + 1 ELSE nAlloc
             /\ mlast' = [op |-> "alloc", ptr |-> res.ret, size |-> size, out |-> NoOutput]
    /\ UNCHANGED <<nFree, sockvars, srvvars>>

\* free(ptr);   of a pointer that a tracked allocation returned and that has
\* not been freed since.
MemFree ==
    /\ \E ptr \in heap :
         /\ memblkList' = f_tracK_free(memblkList, ptr)
         /\ heap' = heap \ {ptr}
         /\ mlast' = [op |-> "free", ptr |-> ptr, size |-> 0, out |-> NoOutput]
    /\ nFree' = nFree + 1
    /\ UNCHANGED <<nAlloc, sockvars, srvvars>>

\* free(NULL);
MemFreeNull ==
    /\ memblkList' = f_tracK_free(memblkList, 0)
    /\ mlast' = [op |-> "free", ptr |-> 0, size |-> 0, out |-> NoOutput]
    /\ UNCHANGED <<heap, nAlloc, nFree, sockvars, srvvars>>

\* f_trackListAllocations();
MemList ==
    /\ mlast' = [op |-> "list", ptr |-> 0, size |-> 0,
                 out |-> f_trackListAllocations(memblkList)]
    /\ UNCHANGED <<memblkList, heap, nAlloc, nFree, sockvars, srvvars>>

MemNext ==
    \/ MemAlloc
    \/ MemFree
    \/ MemFreeNull
    \/ MemList

\* ------------------------------------------------- the one-way server: state
SrvInit ==
    /\ pc = "listen"
    /\ socket = INVALID
    /\ newsocket = INVALID
    /\ bytes_recv = 0
    /\ srv_data = "uninit"
    /\ printed = 0
    /\ closes = <<>>

Init ==
    /\ fds = AllFree
    /\ owned = {}
    /\ closed = {}
    /\ alive = TRUE
    /\ last = [op |-> "init", h |-> INVALID, arg |-> [none |-> TRUE], ret |-> 0,
               trace |-> <<>>, outcome |-> "returned", stale |-> FALSE]
    /\ MemInit
    /\ SrvInit

\* The effect of one call on everything but the caller's own bookkeeping.
\* When the call kills the process, the handles die with it.
Call(op, h, arg, res, stale) ==
    /\ fds' = res.fds
    /\ alive' = (res.outcome = "returned")
    /\ last' = [op |-> op, h |-> h, arg |-> arg, ret |-> res.ret,
                trace |-> res.trace, outcome |-> res.outcome, stale |-> stale]
    /\ UNCHANGED memvars

\* The caller keeps a handle it was given (a return value >= 0).
Keep(res) ==
    /\ owned' = IF res.outcome = "crashed" THEN {}
                ELSE IF res.ret >= 0 THEN owned \cup {res.ret} ELSE owned
    /\ closed' = IF res.outcome = "crashed" THEN {} ELSE closed

\* socket_t socket = network_listen("8080");
Listen ==
    /\ alive
    /\ UNCHANGED srvvars
    /\ \E e \in ListenEnv :
         LET res == network_listen(fds, e)
         IN  Call("listen", INVALID, e, res, FALSE) /\ Keep(res)

ListenOn ==
    /\ alive
    /\ UNCHANGED srvvars
    /\ \E e \in ListenEnv :
         LET res == network_listen_on(fds, e)
         IN  Call("listen_on", INVALID, e, res, FALSE) /\ Keep(res)

\* sockfd = network_connect(clientdata);
Connect ==
    /\ alive
    /\ UNCHANGED srvvars
    /\ \E e \in ConnectEnv :
         LET res == network_connect(fds, e)
         IN  Call("connect", INVALID, e, res, FALSE) /\ Keep(res)

\* The handles a caller that closes each handle once and never uses it again
\* passes to the library: one it holds, or the failure value of an earlier call.
Handles == owned \cup {INVALID}

DoAccept(h, stale) ==
    \E storage \in BOOLEAN, pending \in BOOLEAN :
        LET res == network_accept(fds, h, storage, pending)
        IN  Call("accept", h, [storage |-> storage, pending |-> pending], res, stale)
            /\ Keep(res)

DoSend(h, stale) ==
    \E data \in SendData :
        \E k \in sys_send_results(fds, h, data.len) :
            LET res == network_send(fds, h, data, k)
            IN  /\ Call("send", h, [null |-> data.null, len |-> data.len, k |-> k], res, stale)
                /\ UNCHANGED <<owned, closed>>

DoRecv(h, stale) ==
    \E buf \in RecvBuf :
        \E r \in sys_recv_results(fds, h, buf.size) :
            LET res == network_recv(fds, h, buf, r)
            IN  /\ Call("recv", h, [null |-> buf.null, size |-> buf.size, r |-> r,
                                  wrote |-> res.wrote], res, stale)
                /\ UNCHANGED <<owned, closed>>

DoClose(h, stale) ==
    LET res == network_close(fds, h)
    IN  /\ Call("close", h, [none |-> TRUE], res, stale)
        /\ owned' = owned \ {h}
        /\ closed' = IF h >= 0 THEN closed \cup {h} ELSE closed

\* socket_t newsocket = network_accept(socket, &client_storage);
Accept == alive /\ UNCHANGED srvvars /\ \E h \in Handles : DoAccept(h, FALSE)

\* int bytes = network_send(sockfd, buffer);
Send == alive /\ UNCHANGED srvvars /\ \E h \in Handles : DoSend(h, FALSE)

\* int bytes_recv = network_recv(newsocket, data, buffer_size);
Recv == alive /\ UNCHANGED srvvars /\ \E h \in Handles : DoRecv(h, FALSE)

\* network_close(newsocket);
Close == alive /\ UNCHANGED srvvars /\ \E h \in Handles : DoClose(h, FALSE)

\* The peer of a connected socket closes its end: network_close(sockfd) in the
\* client.
PeerShutdown ==
    /\ alive
    /\ \E d \in FD :
         /\ fds[d] = "connected"
         /\ fds' = [fds EXCEPT ![d] = "peer_shut"]
         /\ last' = [op |-> "peer_shutdown", h |-> d, arg |-> [none |-> TRUE], ret |-> 0,
                     trace |-> <<>>, outcome |-> "returned", stale |-> FALSE]
    /\ UNCHANGED <<owned, closed, alive>>
    /\ UNCHANGED <<memvars, srvvars>>

Next ==
    \/ Listen
    \/ ListenOn
    \/ Accept
    \/ Connect
    \/ Send
    \/ Recv
    \/ Close
    \/ PeerShutdown

Spec == Init /\ [][Next]_vars

\* A caller that does not track which handles it has closed: it also passes
\* handle values it has already closed.
StaleAccept == alive /\ UNCHANGED srvvars /\ \E h \in closed : DoAccept(h, TRUE)

StaleSend == alive /\ UNCHANGED srvvars /\ \E h \in closed : DoSend(h, TRUE)

StaleRecv == alive /\ UNCHANGED srvvars /\ \E h \in closed : DoRecv(h, TRUE)

StaleClose == alive /\ UNCHANGED srvvars /\ \E h \in closed : DoClose(h, TRUE)

NextStale ==
    \/ Next
    \/ StaleAccept
    \/ StaleSend
    \/ StaleRecv
    \/ StaleClose

SpecStale == Init /\ [][NextStale]_vars

\* ------------------------------------------------------------- the claims
IsListen == last.op \in {"listen", "listen_on"}

\* The descriptors the last call obtained from socket().
Created == {last.trace[i][2] : i \in Calls(last.trace, "socket")} \cap FD

\* C1: for network_accept, network_send, network_recv and network_close, a call
\* with a negative handle fails at once and makes no system call on it.
C1_InvalidHandleMakesNoSystemCall ==
    (last.op \in {"accept", "send", "recv", "close"} /\ last.h < 0)
        => /\ last.trace = <<>>
           /\ last.op # "close" => last.ret = INVALID

\* C2: when address resolution produces no descriptor, network_listen and
\* network_listen_on return the failure value without creating a socket and
\* without reading a descriptor.
C2_ResolutionFailureReturnsFailure ==
    (IsListen /\ last.arg.unresolved)
        => /\ last.outcome = "returned"
           /\ last.ret = INVALID
           /\ Calls(last.trace, "socket") = {}
           /\ Calls(last.trace, "read_res") = {}

\* C3: the open descriptors are exactly the handles that were returned to the
\* caller and that it has not yet closed: a network_connect that fails (at
\* socket creation or at connect) leaves nothing open, and closing every
\* returned handle once brings the table back to where it was.
C3_ConnectCloseLeaksNoHandle == Open(fds) = owned

\* A network_connect that created its socket and then failed to connect,
\* while the caller holds another handle.
C3_Witness ==
    /\ last.op = "connect"
    /\ last.ret = INVALID
    /\ Created # {}
    /\ Calls(last.trace, "connect") # {}
    /\ owned # {}

\* C4: on every return path of network_listen and network_listen_on the
\* resolved descriptor is released exactly once, after its last use, and when
\* the call fails no socket it created is left open.
C4_DescriptorReleasedOnceNoSocketLeft ==
    (IsListen /\ ~last.arg.unresolved)
        => /\ last.outcome = "returned"
           /\ Cardinality(Calls(last.trace, "freeaddrinfo")) = 1
           /\ \A i \in Calls(last.trace, "read_res") :
                 \A j \in Calls(last.trace, "freeaddrinfo") : i < j
           /\ last.ret < 0 => \A d \in Created : fds[d] = "free"
           /\ last.ret >= 0 => Created = {last.ret} /\ fds[last.ret] = "listening"

\* A network_listen_on whose listen() failed after socket() and bind() worked.
C4_Witness ==
    /\ last.op = "listen_on"
    /\ ~last.arg.unresolved
    /\ Calls(last.trace, "listen") # {}
    /\ last.ret = INVALID

\* C5: a handle only moves forward (listening or connected, never both, then
\* closed), and once the caller has closed a handle, no later call on that
\* handle value reaches an open descriptor: it returns failure, and a second
\* network_close releases nothing.
C5_ClosedHandleStaysClosed ==
    [][/\ \A d \in FD :
            /\ fds[d] = "listening" => fds'[d] \in {"listening", "free"}
            /\ fds[d] \in {"connected", "peer_shut"}
                  => fds'[d] \in {"connected", "peer_shut", "free"}
       /\ last'.stale =>
            /\ fds' = fds
            /\ (last'.op # "close" /\ last'.trace # <<>>) => last'.ret < 0]_vars

\* The steps of network_listen that can fail, and the outcomes that make the
\* call fail at that step after the resolver has produced a descriptor.
FailSteps == {"socket", "bind", "listen"}

FailAt(step) ==
    [unresolved |-> FALSE, ub |-> "none", sock |-> step # "socket",
     bind |-> step = "listen", listen |-> FALSE]

\* The step at which the last network_listen / network_listen_on failed.
FailedStep ==
    IF \E i \in Calls(last.trace, "socket") : last.trace[i][3] < 0 THEN "socket"
    ELSE IF \E i \in Calls(last.trace, "bind") : last.trace[i][3] < 0 THEN "bind"
    ELSE IF \E i \in Calls(last.trace, "listen") : last.trace[i][3] < 0 THEN "listen"
    ELSE "none"

\* C6: a failed listen tells which step failed: the value returned when
\* socket() fails, when bind() fails and when listen() fails are three
\* different values, so the value of a call that failed at one step is not
\* the value of a call that fails at another.
C6_FailureCodesTellTheStep ==
    (IsListen /\ ~last.arg.unresolved /\ FailedStep # "none" /\ hasFree(fds))
        => \A s \in FailSteps \ {FailedStep} :
              /\ network_listen(fds, FailAt(s)).ret # last.ret
              /\ network_listen_on(fds, FailAt(s)).ret # last.ret

\* C7: network_accept on a listening handle leaves that handle listening and
\* every other open descriptor as it was, whether it fails or returns a peer
\* handle; a returned peer handle is a descriptor that was free before the call,
\* so it differs from the listening handle.
C7_AcceptLeavesListenerListening ==
    [][(last'.op = "accept" /\ last'.h \in FD /\ fds[last'.h] = "listening")
        => /\ fds'[last'.h] = "listening"
           /\ last'.ret < 0 => fds' = fds
           /\ last'.ret >= 0 =>
                /\ last'.ret # last'.h
                /\ fds[last'.ret] = "free"
                /\ fds' = [fds EXCEPT ![last'.ret] = "connected"]]_vars

\* A second network_accept on the same listening handle: the first one
\* returned a peer handle the caller still holds, this one failed.
C7_Witness ==
    /\ last.op = "accept"
    /\ last.h \in FD
    /\ fds[last.h] = "listening"
    /\ last.trace # <<>>
    /\ last.ret = INVALID
    /\ \E d \in owned : fds[d] \in {"connected", "peer_shut"}

\* C8: network_accept with a listening handle and a NULL client_storage
\* accepts the pending connection and returns a valid client handle.
C8_AcceptWithNullStorageAccepts ==
    (/\ last.op = "accept"
     /\ last.h \in FD
     /\ fds[last.h] = "listening"
     /\ ~last.arg.storage
     /\ last.arg.pending
     /\ hasFree(fds))
        => last.ret >= 0

\* The last call was network_send on an open handle with a string that is
\* not NULL.
SendOnValidHandle ==
    /\ last.op = "send"
    /\ last.h \in FD
    /\ fds[last.h] # "free"
    /\ ~last.arg.null

\* C9: network_send on a valid handle with the empty string returns 0 and
\* does not call the transport's send.
C9_EmptySendReturnsZeroWithoutTransport ==
    (SendOnValidHandle /\ last.arg.len = 0)
        => /\ last.ret = 0
           /\ last.trace = <<>>

\* network_send of the empty string on a connected handle.
C9_Witness ==
    /\ SendOnValidHandle
    /\ last.arg.len = 0
    /\ fds[last.h] = "connected"

\* C10: network_send on a valid handle with a string of length n > 0 calls the
\* transport's send exactly once, for the n bytes, and returns the count k the
\* transport took, 0 <= k <= n, also when k < n, or -1 exactly when the
\* transport reported an error.
C10_SendReturnsTransportCount ==
    (SendOnValidHandle /\ last.arg.len > 0)
        => /\ last.trace = <<<<"send", last.h, last.arg.k, last.arg.len>>>>
           /\ last.arg.k >= 0 => (last.ret = last.arg.k /\ last.ret <= last.arg.len)
           /\ last.arg.k < 0 <=> last.ret = INVALID

\* A partial send: the transport took fewer bytes than the string has.
C10_Witness ==
    /\ SendOnValidHandle
    /\ last.arg.len > 0
    /\ last.ret > 0
    /\ last.ret < last.arg.len

\* C11: network_recv with buffer_size 0 returns the failure value without
\* calling the transport, writes nothing into the caller's buffer and leaves
\* the descriptor table, so the handle, as it was.
C11_ZeroCapacityRecvFailsBeforeTransport ==
    [][(last'.op = "recv" /\ last'.arg.size = 0)
        => /\ last'.ret = INVALID
           /\ last'.trace = <<>>
           /\ last'.arg.wrote = 0
           /\ fds' = fds]_vars

\* network_recv with a buffer of size 0 on a connected handle.
C11_Witness ==
    /\ last.op = "recv"
    /\ ~last.arg.null
    /\ last.arg.size = 0
    /\ last.h \in FD
    /\ fds[last.h] = "connected"

\* The last call was network_recv, with a buffer that is not NULL and not of
\* size 0, on a connected handle whose peer has shut the connection down.
RecvAfterPeerShutdown ==
    /\ last.op = "recv"
    /\ last.h \in FD
    /\ fds[last.h] = "peer_shut"
    /\ ~last.arg.null
    /\ last.arg.size > 0

\* C12 as stated: on a connected handle whose peer has shut down, network_recv
\* returns 0 exactly once, so not again on the call that follows one that
\* returned 0, and it does not turn what recv() delivers (the end of the stream,
\* or bytes) into a negative result; bytes returned number 1 .. buffer_size.
C12_RecvReturnsZeroExactlyOnce ==
    [][RecvAfterPeerShutdown' =>
        /\ last'.arg.r >= 0 => last'.ret >= 0
        /\ last'.ret > 0 => last'.ret <= last'.arg.size
        /\ (RecvAfterPeerShutdown /\ last.h = last'.h /\ last.ret = 0) => last'.ret # 0]_vars

\* C12 as amended: on such a handle network_recv calls recv() once and returns
\* what recv() returns: 0 at the end of the stream, on every call that meets it,
\* a count in 1 .. buffer_size when bytes are delivered, and -1 only when
\* recv() itself fails.
C12_RecvReturnsWhatTransportReturns ==
    RecvAfterPeerShutdown =>
        /\ last.trace = <<<<"recv", last.h, last.arg.r, last.arg.size>>>>
        /\ last.arg.r >= 0 => last.ret = last.arg.r
        /\ last.arg.r < 0 <=> last.ret = INVALID
        /\ last.ret >= 0 => last.ret <= last.arg.size
        /\ last.arg.wrote = (IF last.ret > 0 THEN last.ret ELSE 0)

\* network_recv has returned 0 on a handle whose peer has shut down.
C12_Witness ==
    /\ RecvAfterPeerShutdown
    /\ last.arg.r = 0
    /\ last.ret = 0

\* ------------------------------------------------- guaranteed-delivery send
\* What the transport does with an attempt to send rem bytes on h when it
\* would take want bytes (want < 0: it fails): never more than rem, and only
\* failure on a descriptor that is not a connected socket.
TransportTakes(f, h, rem, want) ==
    IF want \in sys_send_results(f, h, rem) THEN want
    ELSE IF want > rem /\ rem \in sys_send_results(f, h, rem) THEN rem
    ELSE -1

\* send_all(handle, bytes): network_send on the bytes that remain, again after
\* every partial result, until all are sent or an attempt fails.  sent: bytes
\* sent so far; ks: what the transport does on the attempts to come; t: the
\* attempts made so far.
RECURSIVE send_all_loop(_, _, _, _, _, _)
send_all_loop(f, h, len, sent, ks, t) ==
    IF sent >= len \/ ks = <<>> THEN Result(f, sent, t)
    ELSE LET rem == len - sent
             res == network_send(f, h, [null |-> FALSE, len |-> rem],
                                 TransportTakes(f, h, rem, Head(ks)))
         IN  IF res.ret < 0 THEN Result(f, -1, t \o res.trace)
             ELSE IF res.ret = 0 THEN Result(f, -1, t \o res.trace)
             ELSE send_all_loop(f, h, len, sent + res.ret, Tail(ks), t \o res.trace)

send_all(f, h, data, ks) ==
    IF h < 0 THEN Result(f, -1, <<>>)
    ELSE IF data.null THEN Result(f, -1, <<>>)
    ELSE send_all_loop(f, h, data.len, 0, ks, <<>>)

\* What the transport does on each of the attempts of one send_all of len bytes:
\* every attempt that succeeds takes at least one byte, so len attempts suffice.
SendAllEnv(len) == [1 .. len -> {-1} \cup (1 .. len)]

SendAll ==
    /\ alive
    /\ UNCHANGED srvvars
    /\ \E h \in Handles, data \in SendData :
         \E ks \in SendAllEnv(data.len) :
             LET res == send_all(fds, h, data, ks)
             IN  /\ Call("send_all", h, [null |-> data.null, len |-> data.len], res, FALSE)
                 /\ UNCHANGED <<owned, closed>>

NextSendAll ==
    \/ Connect
    \/ SendAll
    \/ PeerShutdown
    \/ Close

SpecSendAll == Init /\ [][NextSendAll]_vars

\* The bytes the transport took in the attempts i .. Len(t) of a trace of sends.
RECURSIVE Taken(_, _)
Taken(t, i) == IF i > Len(t) THEN 0 ELSE (IF t[i][3] > 0 THEN t[i][3] ELSE 0) + Taken(t, i + 1)

\* The last call was send_all on an open handle with a string that is not NULL.
SendAllOnValidHandle ==
    /\ last.op = "send_all"
    /\ last.h \in FD
    /\ fds[last.h] # "free"
    /\ ~last.arg.null

SpecMem == Init /\ [][MemNext]_vars

\* The addresses of the blocks f_trackListAllocations lists, in order.
ListedAddrs ==
    LET b == f_trackListAllocations(memblkList).blocks
    IN  [i \in DOMAIN b |-> b[i].addr]

\* C14: after any tracked allocations and tracked frees of outstanding
\* pointers, the tracking list holds exactly one entry for each outstanding
\* block, f_trackListAllocations lists exactly those, and their number is the
\* successful allocations minus the frees.
C14_ListHoldsOutstandingBlocks ==
    /\ {memblkList.items[i].addr : i \in DOMAIN memblkList.items} = heap
    /\ arrlen(memblkList) = Cardinality(heap)
    /\ {ListedAddrs[i] : i \in DOMAIN ListedAddrs} = heap
    /\ Len(ListedAddrs) = nAlloc - nFree

\* Several blocks were allocated, the last of the list has been freed, and
\* others are outstanding.
C14_Witness ==
    /\ nAlloc >= 3
    /\ mlast.op = "free"
    /\ mlast.ptr # 0
    /\ heap # {}
    /\ \A i \in DOMAIN memblkList.items : memblkList.items[i].addr < mlast.ptr

\* C15: a tracked free of an outstanding block removes that block's entry and
\* no other, and leaves the other entries in the order they had; a tracked free
\* of NULL and a tracked allocation that fails leave the list as it was.
C15_FreeRemovesOnlyThatEntry ==
    [][/\ (mlast'.op = "free" /\ mlast'.ptr # 0 /\ mlast'.ptr \in heap) =>
            /\ memblkList'.items =
                   SelectSeq(memblkList.items, LAMBDA b : b.addr # mlast'.ptr)
            /\ arrlen(memblkList') = arrlen(memblkList) - 1
       /\ (mlast'.op = "free" /\ mlast'.ptr = 0) => memblkList' = memblkList
       /\ (mlast'.op = "alloc" /\ mlast'.ptr = 0) => memblkList' = memblkList]_vars

\* A block has just been freed while at least two others stay listed.
C15_Witness ==
    /\ mlast.op = "free"
    /\ mlast.ptr # 0
    /\ arrlen(memblkList) >= 2
    /\ nFree = 1

\* C16: f_trackListAllocations prints the EMPTY marker exactly when no tracked
\* allocation is outstanding, also after blocks were allocated and all freed.
C16_EmptyMarkerIffNothingOutstanding ==
    mlast.op = "list" => (mlast.out.empty <=> heap = {})

\* ----------------------------------------------------- the one-way server
\* const size_t buffer_size = 1024: the capacity of data, scaled down to the
\* largest buffer of the model.
buffer_size == MaxCap

\* What a receive of more than 0 bytes can deliver: the whole line ".exit\n"
\* the client sends before it leaves, or anything else (another line, or only
\* a part of a line).
Messages == {"exit", "text"}

\* strcmp(data, ".exit\n") == 0, by what data held before the receive, the
\* number of bytes received and what they were.  recv writes no terminating
\* NUL: the bytes behind the received ones are what data held before.  While
\* data is uninitialised those bytes are indeterminate, and garbage is what
\* the comparison then yields.
strcmp_is_exit(before, r, msg, garbage) ==
    IF r > 0 /\ msg = "text" THEN FALSE
    ELSE IF before = "uninit" THEN garbage
    ELSE r > 0 /\ msg = "exit"

\* The exits of the while (1) loop: break on ".exit\n", break on
\* bytes_recv == 0; a negative bytes_recv takes neither branch.
loop_exit(eq, r) == eq \/ r = 0

\* socket_t socket = network_listen("8080");
SrvListen ==
    /\ alive
    /\ pc = "listen"
    /\ \E e \in ListenEnv :
         LET res == network_listen(fds, e)
         IN  /\ Call("listen", INVALID, e, res, FALSE)
             /\ Keep(res)
             /\ socket' = res.ret
             /\ pc' = IF res.outcome = "crashed" THEN "crashed" ELSE "accept"
    /\ UNCHANGED <<newsocket, bytes_recv, srv_data, printed, closes>>

\* socket_t newsocket = network_accept(socket, &client_storage);
SrvAccept ==
    /\ alive
    /\ pc = "accept"
    /\ \E pending \in BOOLEAN :
         LET res == network_accept(fds, socket, TRUE, pending)
         IN  /\ Call("accept", socket, [storage |-> TRUE, pending |-> pending], res, FALSE)
             /\ Keep(res)
             /\ newsocket' = res.ret
    /\ pc' = "loop"
    /\ UNCHANGED <<socket, bytes_recv, srv_data, printed, closes>>

\* One turn of while (1): network_recv, the strcmp, the branches on
\* bytes_recv (a positive one prints data), and the memset at the end of a
\* turn that does not break.
SrvLoop ==
    /\ alive
    /\ pc = "loop"
    /\ \E r \in sys_recv_results(fds, newsocket, buffer_size),
          msg \in Messages, garbage \in BOOLEAN :
         LET buf == [null |-> FALSE, size |-> buffer_size]
             res == network_recv(fds, newsocket, buf, r)
             eq == strcmp_is_exit(srv_data, res.ret, msg, garbage)
         IN  /\ res.ret <= 0 => msg = "text"
             /\ garbage => srv_data = "uninit" /\ (res.ret <= 0 \/ msg = "exit")
             /\ Call("recv", newsocket,
                     [null |-> FALSE, size |-> buffer_size, r |-> r,
                      wrote |-> res.wrote, msg |-> msg, equal |-> eq], res, FALSE)
             /\ (res.ret > 0 /\ ~eq) => printed < MaxPrinted
             /\ printed' = IF res.ret > 0 /\ ~eq THEN printed + 1 ELSE printed
             /\ bytes_recv' = res.ret
             /\ pc' = IF loop_exit(eq, res.ret) THEN "close_peer" ELSE "loop"
             /\ srv_data' = IF loop_exit(eq, res.ret)
                            THEN (IF res.ret > 0 THEN msg ELSE srv_data)
                            ELSE "zeros"
    /\ UNCHANGED <<owned, closed, socket, newsocket, closes>>

\* network_close(newsocket);
SrvClosePeer ==
    /\ alive
    /\ pc = "close_peer"
    /\ DoClose(newsocket, FALSE)
    /\ closes' = Append(closes, newsocket)
    /\ pc' = "close_listener"
    /\ UNCHANGED <<socket, newsocket, bytes_recv, srv_data, printed>>

\* network_close(socket);
SrvCloseListener ==
    /\ alive
    /\ pc = "close_listener"
    /\ DoClose(socket, FALSE)
    /\ closes' = Append(closes, socket)
    /\ pc' = "done"
    /\ UNCHANGED <<socket, newsocket, bytes_recv, srv_data, printed>>

\* The client closes its end of the accepted connection.
SrvPeerShutdown == pc = "loop" /\ PeerShutdown

SrvNext ==
    \/ SrvListen
    \/ SrvAccept
    \/ SrvLoop
    \/ SrvPeerShutdown
    \/ SrvClosePeer
    \/ SrvCloseListener

SpecServer == Init /\ [][SrvNext]_vars

\* A turn of the loop after which the connection has ended: the receive
\* returned 0 or a negative result, or delivered the ".exit\n" line.
ConnectionEndedTurn ==
    /\ pc = "loop"
    /\ last'.op = "recv"
    /\ (bytes_recv' <= 0 \/ last'.arg.msg = "exit")

\* C17: once a receive in the one-way server's loop returns 0, returns a
\* negative result, or delivers the '.exit' message, the loop exits, and when
\* main ends it has closed the peer handle and the listening handle once each.
C17_LoopEndsWhenConnectionEnds ==
    [][/\ ConnectionEndedTurn => pc' = "close_peer"
       /\ pc' = "done" => closes' = <<newsocket', socket'>>]_vars

====
